---- MODULE Spec2Model ----
(***************************************************************************)
(* Model of src/functions.py: time_to_minutes, optimum_timetable,          *)
(* weighted_scheduling and prev.                                           *)
(*                                                                         *)
(* Python lists are 0-based; TLA+ sequences are 1-based.  Every index the  *)
(* model stores (i, p, best_idx, k, tk) is the 0-based Python index;       *)
(* At and PyAt translate when a list is read.                              *)
(***************************************************************************)
EXTENDS Integers, Sequences, FiniteSets

VARIABLES
    pc,           \* position of the running call
    t,            \* time_to_minutes: the argument, a time of day "HH:MM:SS"
    minutes,      \* time_to_minutes: the returned value
    earlier,      \* the value returned for the minute before t, -1 if none was asked
    caller_list,  \* the caller's list as it was when the call was made
    activities,   \* the list object the caller passed (shared, mutable)
    dp_table,     \* weighted_scheduling: dp_table
    i,            \* weighted_scheduling / prev: index i
    p,            \* weighted_scheduling: last value of p = prev(activities, i)
    ids,          \* weighted_scheduling: ids
    best_idx,     \* prev: returned value
    input,        \* optimum_timetable: the argument
    k,            \* optimum_timetable: 0-based position of the first loop in input
    trees,        \* optimum_timetable: schedule_id -> set of intervals of its tree
    tree_keys,    \* optimum_timetable: keys of trees in dict insertion order
    tk,           \* optimum_timetable: 0-based position of the second loop in tree_keys
    ordered_ids   \* optimum_timetable: ordered_ids

vars == <<pc, t, minutes, earlier, caller_list, activities, dp_table, i, p, ids, best_idx,
          input, k, trees, tree_keys, tk, ordered_ids>>

timeVars == <<t, minutes, earlier>>
weightVars == <<caller_list, activities, dp_table, i, p, ids, best_idx>>
tableVars == <<input, k, trees, tree_keys, tk, ordered_ids>>

(***************************************************************************)
(* Bounds of the model.                                                    *)
(***************************************************************************)
MaxN == 3        \* longest list given to weighted_scheduling and prev
MaxInput == 3    \* longest list given to optimum_timetable

\* the id of the activity at (1-based) position j of a caller's list
IdAt(j) == 100 + j

\* start_time / end_time of the lists given to weighted_scheduling and prev
Ticks == 0 .. 3
\* value of the activities given to weighted_scheduling
Values == {-1, 0, 2, 3}

(***************************************************************************)
(* Python list access.                                                     *)
(***************************************************************************)
\* seq[j] for 0 <= j < len(seq)
At(seq, j) == seq[j + 1]

\* seq[j] as Python evaluates it: a negative j counts from the end
PyAt(seq, j) == IF j < 0 THEN seq[Len(seq) + j + 1] ELSE seq[j + 1]

Max(a, b) == IF a >= b THEN a ELSE b

(***************************************************************************)
(* time_to_minutes                                                         *)
(***************************************************************************)
\* datetime.strptime(t, "%H:%M:%S").time(): the fields of a well-formed string.
\* A time string is modelled by its three two-digit fields.
strptime(s) == [hour |-> s.hh, minute |-> s.mm, second |-> s.ss]

time_to_minutes(s) ==
    LET tm == strptime(s) IN
    IF tm.hour < 8
    THEN tm.hour + 24 + tm.minute + 24 * 60
    ELSE tm.hour * 60 + tm.minute

\* every well-formed time of day, seconds zero
TimeStrings == [hh : 0 .. 23, mm : 0 .. 59, ss : {0}]

NoTime == [hh |-> 0, mm |-> 0, ss |-> 0]

(***************************************************************************)
(* prev                                                                    *)
(***************************************************************************)
\* the while loop of prev, from the loop state (l, r, best_idx)
RECURSIVE prev_loop(_, _, _, _, _)
prev_loop(acts, start_time, l, r, best) ==
    IF l <= r
    THEN LET mid == (l + r) \div 2 IN
         IF At(acts, mid).end_time <= start_time
         THEN prev_loop(acts, start_time, mid + 1, r, mid)
         ELSE prev_loop(acts, start_time, l, mid - 1, best)
    ELSE best

\* the same loop with "<" for "<=": an activity ending exactly at start_time
\* is no longer a predecessor
RECURSIVE prev_loop_strict(_, _, _, _, _)
prev_loop_strict(acts, start_time, l, r, best) ==
    IF l <= r
    THEN LET mid == (l + r) \div 2 IN
         IF At(acts, mid).end_time < start_time
         THEN prev_loop_strict(acts, start_time, mid + 1, r, mid)
         ELSE prev_loop_strict(acts, start_time, l, mid - 1, best)
    ELSE best

prev_strict(acts, j) == prev_loop_strict(acts, At(acts, j).start_time, 0, j - 1, -1)

prev(acts, j) == prev_loop(acts, At(acts, j).start_time, 0, j - 1, -1)

(***************************************************************************)
(* weighted_scheduling                                                     *)
(***************************************************************************)
\* number of leading elements of the sorted list acc whose key is <= e
RECURSIVE CountLE(_, _)
CountLE(acc, e) ==
    IF acc = <<>> \/ Head(acc).end_time > e THEN 0 ELSE 1 + CountLE(Tail(acc), e)

\* number of leading elements of the sorted list acc whose key is < e
RECURSIVE CountLT(_, _)
CountLT(acc, e) ==
    IF acc = <<>> \/ Head(acc).end_time >= e THEN 0 ELSE 1 + CountLT(Tail(acc), e)

InsertAt(acc, c, x) == SubSeq(acc, 1, c) \o <<x>> \o SubSeq(acc, c + 1, Len(acc))

\* a sort by end_time that is not stable: equal keys come out reversed
RECURSIVE sort_by_end_unstable(_)
sort_by_end_unstable(seq) ==
    IF seq = <<>> THEN <<>>
    ELSE LET acc == sort_by_end_unstable(SubSeq(seq, 1, Len(seq) - 1))
             x == seq[Len(seq)]
         IN InsertAt(acc, CountLT(acc, x.end_time), x)

\* activities.sort(key=lambda x: x["end_time"]): list.sort is stable, so the
\* elements come out ascending by end_time, equal keys in their former order
RECURSIVE sort_by_end(_)
sort_by_end(seq) ==
    IF seq = <<>> THEN <<>>
    ELSE LET acc == sort_by_end(SubSeq(seq, 1, Len(seq) - 1))
             x == seq[Len(seq)]
         IN InsertAt(acc, CountLE(acc, x.end_time), x)

\* the right-hand side of line 145-146; dp_table[i - 1] is dp_table[-1], the
\* last element of the list, when i = 0
dp_value(acts, dp, j, q) ==
    Max(PyAt(dp, j - 1),
        At(acts, j).value + (IF q >= 0 THEN At(dp, q) ELSE 0))

\* the test of line 152 with a tie dp_table[i] == dp_table[i - 1] read as selected
selected_on_tie(dp, j) == j = 0 \/ At(dp, j) >= At(dp, j - 1)

\* the test of line 152: `or` does not evaluate dp_table[i - 1] when i == 0
selected(dp, j) == j = 0 \/ At(dp, j) /= At(dp, j - 1)

\* lines 130-136: n = len(activities); the in-place sort; the fresh dp_table
WSort ==
    /\ pc = "w_start"
    /\ activities' = sort_by_end(activities)
    /\ dp_table' = [j \in 1 .. Len(activities) |-> -1]
    /\ i' = 0
    /\ pc' = "w_fill"
    /\ UNCHANGED <<caller_list, p, ids, best_idx>>
    /\ UNCHANGED timeVars /\ UNCHANGED tableVars

\* lines 143-146: one iteration of the fill loop
WFill ==
    /\ pc = "w_fill"
    /\ i < Len(activities)
    /\ LET q == prev(activities, i) IN
       /\ p' = q
       /\ dp_table' = [dp_table EXCEPT ![i + 1] = dp_value(activities, dp_table, i, q)]
    /\ i' = i + 1
    /\ UNCHANGED <<pc, caller_list, activities, ids, best_idx>>
    /\ UNCHANGED timeVars /\ UNCHANGED tableVars

\* lines 149-150: the fill loop is over; ids = [], i = n - 1
WFillEnd ==
    /\ pc = "w_fill"
    /\ i = Len(activities)
    /\ ids' = <<>>
    /\ i' = Len(activities) - 1
    /\ pc' = "w_back"
    /\ UNCHANGED <<caller_list, activities, dp_table, p, best_idx>>
    /\ UNCHANGED timeVars /\ UNCHANGED tableVars

\* lines 151-155: one iteration of the backtracking loop
WBack ==
    /\ pc = "w_back"
    /\ i >= 0
    /\ IF selected(dp_table, i)
       THEN /\ ids' = Append(ids, At(activities, i).id)
            /\ i' = prev(activities, i)
       ELSE /\ ids' = ids
            /\ i' = i - 1
    /\ UNCHANGED <<pc, caller_list, activities, dp_table, p, best_idx>>
    /\ UNCHANGED timeVars /\ UNCHANGED tableVars

\* line 158: return ids
WReturn ==
    /\ pc = "w_back"
    /\ i < 0
    /\ pc' = "w_done"
    /\ UNCHANGED weightVars
    /\ UNCHANGED timeVars /\ UNCHANGED tableVars

(***************************************************************************)
(* optimum_timetable                                                       *)
(*                                                                         *)
(* An IntervalTree is modelled by the set of its intervals, each a record  *)
(* [begin, end, data]; trees (a defaultdict) by a function from the keys   *)
(* it holds to their trees, with tree_keys the order the keys were         *)
(* inserted in, which is the order trees.values() iterates in.             *)
(***************************************************************************)
\* IntervalTree.overlaps_point(pt): some interval holds pt
overlaps_point(tree, pt) == \E iv \in tree : iv.begin <= pt /\ pt < iv.end

\* IntervalTree.boundary_table: the begins and ends of the intervals
boundary_table(tree) == {iv.begin : iv \in tree} \cup {iv.end : iv \in tree}

\* the test of the begin point alone, without the scan of the boundary table
overlaps_begin_only(tree, begin, end) ==
    IF tree = {} THEN FALSE
    ELSE IF begin >= end THEN FALSE
    ELSE overlaps_point(tree, begin)

\* tree.overlaps(begin, end), line 101: IntervalTree.overlaps_range
overlaps(tree, begin, end) ==
    IF tree = {} THEN FALSE
    ELSE IF begin >= end THEN FALSE
    ELSE \/ overlaps_point(tree, begin)
         \/ \E bound \in boundary_table(tree) :
               begin < bound /\ bound < end /\ overlaps_point(tree, bound)

\* Interval.is_null(): IntervalTree.add raises ValueError for such an interval
is_null(begin, end) == begin >= end

\* the activity of the running iteration of the first loop, and lines 97-100
CurAct == At(input, k)
CurStart == time_to_minutes(CurAct.start_time)
CurEnd == time_to_minutes(CurAct.end_time)
CurKey == CurAct.schedule_id

\* trees[key] of a defaultdict(IntervalTree): a missing key is inserted with
\* an empty tree
TreeOf(key) == IF key \in DOMAIN trees THEN trees[key] ELSE {}
KeysAfterLookup(key) ==
    IF key \in DOMAIN trees THEN tree_keys ELSE Append(tree_keys, key)
TreesWith(key, tree) ==
    [s \in DOMAIN trees \cup {key} |-> IF s = key THEN tree ELSE trees[s]]

\* the permutations of the intervals of a tree, as sequences
Orders(tree) ==
    {f \in [1 .. Cardinality(tree) -> tree] :
        \A a, b \in 1 .. Cardinality(tree) : a /= b => f[a] /= f[b]}

\* the intervals of a tree in descending order of begin
sorted_by_begin_desc(tree) ==
    {f \in Orders(tree) :
        \A a, b \in 1 .. Cardinality(tree) : a < b => f[a].begin >= f[b].begin}

\* sorted(tree, key=lambda i: i.begin), line 106: the tree iterates over a
\* set, so intervals of equal begin may come out in either order
sorted_by_begin(tree) ==
    {f \in Orders(tree) :
        \A a, b \in 1 .. Cardinality(tree) : a < b => f[a].begin <= f[b].begin}

\* lines 96-102: an iteration that finds no overlap and inserts the interval
TAdmit ==
    /\ pc = "tt_loop"
    /\ k < Len(input)
    /\ ~overlaps(TreeOf(CurKey), CurStart, CurEnd)
    /\ ~is_null(CurStart, CurEnd)
    /\ trees' = TreesWith(CurKey, TreeOf(CurKey) \cup
                    {[begin |-> CurStart, end |-> CurEnd, data |-> CurAct.id]})
    /\ tree_keys' = KeysAfterLookup(CurKey)
    /\ k' = k + 1
    /\ UNCHANGED <<pc, input, tk, ordered_ids>>
    /\ UNCHANGED timeVars /\ UNCHANGED weightVars

\* lines 96-101: an iteration that finds an overlap
TReject ==
    /\ pc = "tt_loop"
    /\ k < Len(input)
    /\ overlaps(TreeOf(CurKey), CurStart, CurEnd)
    /\ trees' = TreesWith(CurKey, TreeOf(CurKey))
    /\ tree_keys' = KeysAfterLookup(CurKey)
    /\ k' = k + 1
    /\ UNCHANGED <<pc, input, tk, ordered_ids>>
    /\ UNCHANGED timeVars /\ UNCHANGED weightVars

\* lines 96-102: an iteration whose insertion raises ValueError, which
\* nothing catches: the call ends without a return value
TRaise ==
    /\ pc = "tt_loop"
    /\ k < Len(input)
    /\ ~overlaps(TreeOf(CurKey), CurStart, CurEnd)
    /\ is_null(CurStart, CurEnd)
    /\ trees' = TreesWith(CurKey, TreeOf(CurKey))
    /\ tree_keys' = KeysAfterLookup(CurKey)
    /\ pc' = "tt_raised"
    /\ UNCHANGED <<input, k, tk, ordered_ids>>
    /\ UNCHANGED timeVars /\ UNCHANGED weightVars

\* line 104: the first loop is over; ordered_ids = []
TLoopEnd ==
    /\ pc = "tt_loop"
    /\ k = Len(input)
    /\ ordered_ids' = <<>>
    /\ tk' = 0
    /\ pc' = "tt_extract"
    /\ UNCHANGED <<input, k, trees, tree_keys>>
    /\ UNCHANGED timeVars /\ UNCHANGED weightVars

\* lines 105-107: one iteration of the second loop
TExtract ==
    /\ pc = "tt_extract"
    /\ tk < Len(tree_keys)
    /\ \E intervals \in sorted_by_begin(trees[At(tree_keys, tk)]) :
          ordered_ids' = ordered_ids \o
              [j \in 1 .. Len(intervals) |-> intervals[j].data]
    /\ tk' = tk + 1
    /\ UNCHANGED <<pc, input, k, trees, tree_keys>>
    /\ UNCHANGED timeVars /\ UNCHANGED weightVars

\* line 109: return ordered_ids
TReturn ==
    /\ pc = "tt_extract"
    /\ tk = Len(tree_keys)
    /\ pc' = "tt_done"
    /\ UNCHANGED tableVars
    /\ UNCHANGED timeVars /\ UNCHANGED weightVars

(***************************************************************************)
(* Idle values of the variables a specification does not use.              *)
(***************************************************************************)
TimeIdle == t = NoTime /\ minutes = -1 /\ earlier = -1

WeightIdle ==
    /\ caller_list = <<>> /\ activities = <<>> /\ dp_table = <<>>
    /\ i = 0 /\ p = -1 /\ ids = <<>> /\ best_idx = -1

TableIdle ==
    /\ input = <<>> /\ k = 0 /\ trees = <<>> /\ tree_keys = <<>>
    /\ tk = 0 /\ ordered_ids = <<>>

(***************************************************************************)
(* SpecTime: time_to_minutes called on the minutes of a festival day.      *)
(***************************************************************************)
LastMinute == [hh |-> 7, mm |-> 59, ss |-> 0]

\* the minute after s on the clock
NextMinute(s) ==
    IF s.mm < 59 THEN [s EXCEPT !.mm = s.mm + 1]
    ELSE [s EXCEPT !.mm = 0, !.hh = (s.hh + 1) % 24]

TimeInit ==
    /\ pc = "t_call"
    /\ t \in TimeStrings
    /\ minutes = -1
    /\ earlier = -1
    /\ WeightIdle /\ TableIdle

\* lines 72-75
TCall ==
    /\ pc = "t_call"
    /\ minutes' = time_to_minutes(t)
    /\ pc' = "t_done"
    /\ UNCHANGED <<t, earlier>>
    /\ UNCHANGED weightVars /\ UNCHANGED tableVars

\* the caller asks for the next minute of the same festival day
TAdvance ==
    /\ pc = "t_done"
    /\ t /= LastMinute
    /\ t' = NextMinute(t)
    /\ earlier' = minutes
    /\ minutes' = -1
    /\ pc' = "t_call"
    /\ UNCHANGED weightVars /\ UNCHANGED tableVars

TimeNext == TCall \/ TAdvance

SpecTime == TimeInit /\ [][TimeNext]_vars

(***************************************************************************)
(* SpecPrev: prev called on a list sorted ascending by end_time.           *)
(***************************************************************************)
\* every list of n activities with the given <<start, end>> and value choices,
\* the activity at position j carrying the id IdAt(j)
ListsOf(n, spans, values) ==
    { [j \in 1 .. n |-> [id |-> IdAt(j), start_time |-> f[j][1][1],
                         end_time |-> f[j][1][2], value |-> f[j][2]]] :
      f \in [1 .. n -> spans \X values] }

SortedByEnd(seq) ==
    \A a, b \in 1 .. Len(seq) : a < b => seq[a].end_time <= seq[b].end_time

PrevInit ==
    /\ pc = "p_call"
    /\ \E n \in 1 .. MaxN :
         /\ activities \in {l \in ListsOf(n, Ticks \X Ticks, {0}) : SortedByEnd(l)}
         /\ i \in 0 .. n - 1
    /\ caller_list = activities
    /\ dp_table = <<>> /\ p = -1 /\ ids = <<>> /\ best_idx = -1
    /\ TimeIdle /\ TableIdle

\* lines 175-188
PrevCall ==
    /\ pc = "p_call"
    /\ best_idx' = prev(activities, i)
    /\ pc' = "p_done"
    /\ UNCHANGED <<caller_list, activities, dp_table, i, p, ids>>
    /\ UNCHANGED timeVars /\ UNCHANGED tableVars

PrevNext == PrevCall

SpecPrev == PrevInit /\ [][PrevNext]_vars

(***************************************************************************)
(* SpecWeighted: weighted_scheduling called on a list of activities with   *)
(* integer start_time < end_time and an integer value.                     *)
(***************************************************************************)
WeightedLists(n) ==
    ListsOf(n, {s \in Ticks \X Ticks : s[1] < s[2]}, Values)

WeightedInit ==
    /\ pc = "w_start"
    /\ \E n \in 0 .. MaxN : activities \in WeightedLists(n)
    /\ caller_list = activities
    /\ dp_table = <<>> /\ i = 0 /\ p = -1 /\ ids = <<>> /\ best_idx = -1
    /\ TimeIdle /\ TableIdle

WeightedNext == WSort \/ WFill \/ WFillEnd \/ WBack \/ WReturn

SpecWeighted == WeightedInit /\ [][WeightedNext]_vars

(***************************************************************************)
(* SpecTable: optimum_timetable called on a list of records with id,       *)
(* schedule_id and well-formed "HH:MM:SS" start_time and end_time.         *)
(***************************************************************************)
\* the times of day the records are drawn from: 23:30, 00:30, 01:00, 01:30
Clock ==
    {[hh |-> 23, mm |-> 30, ss |-> 0], [hh |-> 0, mm |-> 30, ss |-> 0],
     [hh |-> 1, mm |-> 0, ss |-> 0], [hh |-> 1, mm |-> 30, ss |-> 0]}

\* the schedule ids the records are drawn from
Schedules == {1, 2}

\* the list of n records with the given <<schedule_id, start_time, end_time>>,
\* the record at position j carrying the id IdAt(j)
TableList(n, f) ==
    [j \in 1 .. n |-> [id |-> IdAt(j), schedule_id |-> f[j][1],
                       start_time |-> f[j][2], end_time |-> f[j][3]]]

TableInit ==
    /\ pc = "tt_loop"
    /\ \E n \in 0 .. MaxInput :
          \E f \in [1 .. n -> Schedules \X Clock \X Clock] : input = TableList(n, f)
    /\ k = 0 /\ trees = <<>> /\ tree_keys = <<>> /\ tk = 0 /\ ordered_ids = <<>>
    /\ TimeIdle /\ WeightIdle

TableNext == TAdmit \/ TReject \/ TRaise \/ TLoopEnd \/ TExtract \/ TReturn

SpecTable == TableInit /\ [][TableNext]_vars

(***************************************************************************)
(* Definitions the claims are stated with.                                 *)
(***************************************************************************)
Range(seq) == {seq[j] : j \in 1 .. Len(seq)}

\* the half-open ranges [start, end) of a and b share a point
Overlap(a, b) ==
    /\ a.start_time < a.end_time /\ b.start_time < b.end_time
    /\ a.start_time < b.end_time /\ b.start_time < a.end_time

\* S is a set of (1-based) positions of pairwise non-overlapping activities
NonOverlapping(acts, S) ==
    \A a, b \in S : a /= b => ~Overlap(acts[a], acts[b])

RECURSIVE SumValue(_, _)
SumValue(acts, S) ==
    IF S = {} THEN 0
    ELSE LET a == CHOOSE x \in S : TRUE IN acts[a].value + SumValue(acts, S \ {a})

\* the greatest summed value of a non-overlapping subset of the first m activities
BestValue(acts, m) ==
    LET sums == {SumValue(acts, S) : S \in {X \in SUBSET (1 .. m) : NonOverlapping(acts, X)}}
    IN CHOOSE v \in sums : \A w \in sums : w <= v

\* the 0-based indexes j < x with acts[j].end_time <= acts[x].start_time
Predecessors(acts, x) ==
    {j \in 0 .. x - 1 : At(acts, j).end_time <= At(acts, x).start_time}

\* the largest of them, -1 when there is none
LastPredecessor(acts, x) ==
    IF Predecessors(acts, x) = {} THEN -1
    ELSE CHOOSE j \in Predecessors(acts, x) : \A h \in Predecessors(acts, x) : h <= j

\* a scan of x-1, x-2, ..., 0 for the first activity ending by the start of x
RECURSIVE LinearScan(_, _, _)
LinearScan(acts, x, j) ==
    IF j < 0 THEN -1
    ELSE IF At(acts, j).end_time <= At(acts, x).start_time THEN j
    ELSE LinearScan(acts, x, j - 1)

\* the (1-based) positions of the sorted list whose ids were returned
Returned == {j \in 1 .. Len(activities) : activities[j].id \in Range(ids)}

\* the activity of the list that carries the id x
ById(acts, x) == acts[CHOOSE j \in 1 .. Len(acts) : acts[j].id = x]

\* minutes from midnight of the day the festival day starts on, the festival
\* day running from 08:00 to 08:00 of the next morning
Canonical(s) == IF s.hh < 8 THEN s.hh * 60 + s.mm + 24 * 60 ELSE s.hh * 60 + s.mm

(***************************************************************************)
(* C3.  time_to_minutes returns hour*60 + minute + 24*60 when hour < 8     *)
(* and hour*60 + minute otherwise (480 for 08:00:00, 1919 for 07:59:00,    *)
(* 1410 for 23:30:00), and the value grows strictly from one minute of     *)
(* the festival day 08:00 .. 07:59 to the next.                            *)
(***************************************************************************)
C3_Normalized ==
    pc = "t_done" =>
        /\ minutes = Canonical(t)
        /\ (t.hh = 8 /\ t.mm = 0) => minutes = 480
        /\ (t.hh = 7 /\ t.mm = 59) => minutes = 1919
        /\ (t.hh = 23 /\ t.mm = 30) => minutes = 1410
        /\ (earlier /= -1 /\ (t.hh /= 8 \/ t.mm /= 0)) => earlier < minutes

(***************************************************************************)
(* C5.  On a list sorted ascending by end_time, prev(activities, i)        *)
(* returns the largest index j < i with activities[j].end_time <=          *)
(* activities[i].start_time, -1 exactly when there is none; it agrees with *)
(* a linear scan of 0 .. i-1 and leaves the list as it was.                *)
(***************************************************************************)
C5_PrevIsLastPredecessor ==
    pc = "p_done" =>
        /\ best_idx = LastPredecessor(activities, i)
        /\ (best_idx = -1) <=> (Predecessors(activities, i) = {})
        /\ best_idx = LinearScan(activities, i, i - 1)
        /\ activities = caller_list

\* prev has returned an index that is not i - 1, of an activity that ends
\* exactly when activity i starts
C5_Witness ==
    /\ pc = "p_done"
    /\ best_idx >= 0
    /\ best_idx < i - 1
    /\ At(activities, best_idx).end_time = At(activities, i).start_time

(***************************************************************************)
(* C1.  The ids weighted_scheduling returns denote pairwise                *)
(* non-overlapping activities, and no non-overlapping subset of the input  *)
(* (the empty one included) has a strictly greater summed value.           *)
(***************************************************************************)
C1_Optimal ==
    pc = "w_done" =>
        /\ NonOverlapping(activities, Returned)
        /\ \A S \in SUBSET (1 .. Len(activities)) :
              NonOverlapping(activities, S) =>
                  SumValue(activities, S) <= SumValue(activities, Returned)

(***************************************************************************)
(* C9.  When the fill loop ends, dp_table[i] = max(dp_table[i-1],          *)
(* value[i] + dp_table[prev(i)]) for every i, with dp_table[-1] and        *)
(* dp_table[prev(i)] for prev(i) = -1 taken as 0; so dp_table[i] is the    *)
(* greatest summed value of a non-overlapping subset of the first i+1      *)
(* activities in end-time order.                                           *)
(***************************************************************************)
C9_Recurrence ==
    pc = "w_back" =>
        \A j \in 0 .. Len(activities) - 1 :
            LET q == LastPredecessor(activities, j) IN
            /\ At(dp_table, j) =
                  Max(IF j = 0 THEN 0 ELSE At(dp_table, j - 1),
                      At(activities, j).value + (IF q = -1 THEN 0 ELSE At(dp_table, q)))
            /\ At(dp_table, j) = BestValue(activities, j + 1)

(***************************************************************************)
(* C7.  As claimed: after weighted_scheduling returns, the caller's list   *)
(* holds the same records in the same order as before the call.            *)
(***************************************************************************)
C7_ListUntouched == pc = "w_done" => activities = caller_list

(***************************************************************************)
(* C7, amended.  After weighted_scheduling returns, the caller's list      *)
(* holds the same records, reordered ascending by end_time, records of     *)
(* equal end_time in the order they had before the call.                   *)
(***************************************************************************)
PositionIn(seq, x) == CHOOSE j \in 1 .. Len(seq) : seq[j] = x

C7_ListStablySorted ==
    pc = "w_done" =>
        /\ Len(activities) = Len(caller_list)
        /\ Range(activities) = Range(caller_list)
        /\ \A a, b \in 1 .. Len(activities) :
              a < b =>
                  /\ activities[a].end_time <= activities[b].end_time
                  /\ activities[a].end_time = activities[b].end_time =>
                        PositionIn(caller_list, activities[a])
                            < PositionIn(caller_list, activities[b])

\* the call has returned and has reordered the caller's list, which held two
\* records of equal end_time
C7_Witness ==
    /\ pc = "w_done"
    /\ activities /= caller_list
    /\ \E a, b \in 1 .. Len(activities) :
          a < b /\ activities[a].end_time = activities[b].end_time

(***************************************************************************)
(* C10.  The backtracking loop starts at i = n-1 with no id; at a visited  *)
(* index i > 0 with dp_table[i] = dp_table[i-1] nothing is appended and    *)
(* the next index is i-1; at a visited index with i = 0 or dp_table[i] /=  *)
(* dp_table[i-1] the id of activity i is appended and the next index is    *)
(* prev(activities, i); the index decreases strictly at each step and      *)
(* never goes below -1, the loop is left only with i < 0, and the ids are  *)
(* in descending end_time order.                                           *)
(***************************************************************************)
DescendingEnd(acts, l) ==
    \A a, b \in 1 .. Len(l) :
        a < b => ById(acts, l[a]).end_time > ById(acts, l[b]).end_time

C10_BacktrackStep ==
    /\ (pc = "w_fill" /\ pc' = "w_back") => (i' = Len(activities) - 1 /\ ids' = <<>>)
    /\ (pc = "w_back" /\ pc' = "w_back" /\ i' /= i) =>
          /\ i >= 0
          /\ (i > 0 /\ At(dp_table, i) = At(dp_table, i - 1)) =>
                (ids' = ids /\ i' = i - 1)
          /\ (i = 0 \/ At(dp_table, i) /= At(dp_table, i - 1)) =>
                /\ ids' = Append(ids, At(activities, i).id)
                /\ i' = LastPredecessor(activities, i)
          /\ i' < i
          /\ i' >= -1
          /\ DescendingEnd(activities, ids')
    /\ (pc = "w_back" /\ i >= 0) => pc' = "w_back"
    /\ (pc = "w_back" /\ pc' = "w_done") => (i < 0 /\ ids' = ids)

C10_Backtrack == [][C10_BacktrackStep]_vars

\* the loop has ended after skipping one index on a tie and appending two ids
C10_Witness ==
    /\ pc = "w_done"
    /\ Len(ids) = 2
    /\ \E j \in 1 .. Len(activities) - 1 :
          /\ activities[j + 1].id \notin Range(ids)
          /\ dp_table[j + 1] = dp_table[j]

(***************************************************************************)
(* Definitions the claims about optimum_timetable are stated with.         *)
(***************************************************************************)
\* the (1-based) position in input of the record that carries the id x
InputPos(x) == CHOOSE j \in 1 .. Len(input) : input[j].id = x

\* the interval of a record as optimum_timetable computes it, lines 97-98
Normalized(act) ==
    [start_time |-> time_to_minutes(act.start_time),
     end_time |-> time_to_minutes(act.end_time)]

\* the interval of a record on the canonical timeline
OnCanonical(act) ==
    [start_time |-> Canonical(act.start_time),
     end_time |-> Canonical(act.end_time)]

\* the ids held by the trees
AdmittedIds(tr) == UNION {{iv.data : iv \in tr[s]} : s \in DOMAIN tr}

\* the position in input of the first record of a schedule
FirstOf(sid) ==
    CHOOSE j \in 1 .. Len(input) :
        /\ input[j].schedule_id = sid
        /\ \A h \in 1 .. j - 1 : input[h].schedule_id /= sid

(***************************************************************************)
(* C2.  No two activities of the output with the same schedule_id overlap  *)
(* on the canonical timeline (hour*60 + minute, plus 1440 when hour < 8):  *)
(* if A precedes B in the input, both are in the same track and their      *)
(* ranges overlap, A and B are never both in the output.                   *)
(***************************************************************************)
C2_NoOverlapInTrack ==
    pc = "tt_done" =>
        \A a, b \in 1 .. Len(input) :
            (/\ a < b
             /\ input[a].schedule_id = input[b].schedule_id
             /\ Overlap(OnCanonical(input[a]), OnCanonical(input[b])))
            => ~(input[a].id \in Range(ordered_ids) /\ input[b].id \in Range(ordered_ids))

(***************************************************************************)
(* C8.  On records with well-formed times, whatever the relation between   *)
(* the two normalized values, optimum_timetable runs to completion and     *)
(* returns a list of ids without raising; the empty list gives the empty   *)
(* list.                                                                   *)
(***************************************************************************)
C8_ReturnsWithoutError ==
    /\ pc /= "tt_raised"
    /\ pc /= "tt_done" => ENABLED TableNext
    /\ pc = "tt_done" => Range(ordered_ids) \subseteq {input[j].id : j \in 1 .. Len(input)}
    /\ (pc = "tt_done" /\ input = <<>>) => ordered_ids = <<>>

(***************************************************************************)
(* C4.  An iteration of the first loop that decides on its activity admits *)
(* it to the container of its schedule_id if and only if its normalized    *)
(* interval [start, end) overlaps no interval already in that container    *)
(* (other containers are not consulted, touching is no overlap); no step   *)
(* removes or replaces an admitted interval or admits an activity of an    *)
(* earlier iteration; so every activity absent from the output overlaps    *)
(* an earlier activity of its track that is in the output.                 *)
(* (Normalized is the value time_to_minutes returns. An iteration that     *)
(* raises ValueError makes no decision: see C8.)                           *)
(***************************************************************************)
IntervalOf(act) ==
    [begin |-> Normalized(act).start_time, end |-> Normalized(act).end_time,
     data |-> act.id]

OverlapsAdmitted(act) ==
    \E iv \in TreeOf(act.schedule_id) :
        Overlap(Normalized(act), [start_time |-> iv.begin, end_time |-> iv.end])

AbsentOverlapsEarlier ==
    \A b \in 1 .. Len(input) :
        input[b].id \notin Range(ordered_ids) =>
            \E a \in 1 .. b - 1 :
                /\ input[a].schedule_id = input[b].schedule_id
                /\ input[a].id \in Range(ordered_ids)
                /\ Overlap(Normalized(input[a]), Normalized(input[b]))

C4_GreedyStep ==
    /\ (pc = "tt_loop" /\ k' = k + 1) =>
          /\ (IntervalOf(CurAct) \in trees'[CurKey]) <=> ~OverlapsAdmitted(CurAct)
          /\ trees'[CurKey] \ {IntervalOf(CurAct)} = TreeOf(CurKey)
          /\ \A s \in DOMAIN trees' : s /= CurKey => (s \in DOMAIN trees /\ trees'[s] = trees[s])
    /\ ~(pc = "tt_loop" /\ k' = k + 1) =>
          \A s \in DOMAIN trees : s \in DOMAIN trees' /\ trees'[s] = trees[s]
    /\ pc' = "tt_done" => AbsentOverlapsEarlier'

TrackAt(j) == input[InputPos(ordered_ids[j])].schedule_id
StartAt(j) == Normalized(input[InputPos(ordered_ids[j])]).start_time

C6_OutputOrder ==
    /\ pc = "tt_done" =>
          /\ Range(ordered_ids) = AdmittedIds(trees)
          /\ Len(ordered_ids) = Cardinality(AdmittedIds(trees))
          /\ \A a, b \in 1 .. Len(ordered_ids) :
                a < b =>
                    IF TrackAt(a) = TrackAt(b)
                    THEN /\ StartAt(a) < StartAt(b)
                         /\ \A c \in a .. b : TrackAt(c) = TrackAt(a)
                    ELSE FirstOf(TrackAt(a)) < FirstOf(TrackAt(b))
    /\ pc = "tt_extract" =>
          \A s \in DOMAIN trees : \A u, v \in trees[s] : u /= v => u.begin /= v.begin

\* the call has returned a list of three ids, two of one track in the
\* reverse of their input order, the third of a track that appears between
\* them in the input
C6_Witness ==
    /\ pc = "tt_done"
    /\ Len(input) = 3
    /\ Len(ordered_ids) = 3
    /\ input[1].schedule_id = input[3].schedule_id
    /\ input[1].schedule_id /= input[2].schedule_id
    /\ ordered_ids = <<input[3].id, input[1].id, input[2].id>>

====
